---- MODULE Spec2Model ----
(***************************************************************************)
(* A model of combine-proc-macro: the Input stream adapter that flattens a *)
(* nested proc_macro2 token tree into a flat stream of Tokens              *)
(* (src/src/input.rs) and the five token parsers built on it               *)
(* (src/src/parser.rs).                                                    *)
(***************************************************************************)
EXTENDS Integers, Sequences, FiniteSets, TLC

VARIABLES
    tree,             \* the TokenStream handed to Input::from
    input,            \* the live Input: [source_stack, source_pos]
    produced,         \* history: the tokens uncons has returned to reach `input`
    checkpoints,      \* the checkpoints the caller holds, one Option per slot
    debug_assertions, \* whether the build compiles debug_assert! in
    out               \* what the last operation returned to its caller

vars == <<tree, input, produced, checkpoints, debug_assertions, out>>

\* ------------------------------------------------------------------ bounds
\* Largest number of nodes (leaves and groups) of a token tree drained by
\* the stream specification.
MaxNodes == 3
\* Largest number of nodes of a token tree given to the parsers.
MaxParseNodes == 2
\* Largest number of nodes of a token tree in the checkpoint specification.
MaxResetNodes == 3
\* Largest number of nodes of a nested token tree given to the diagnostic.
MaxDiagNodes == 2
\* The longest token stream given to the diagnostic has this many tokens
\* more than DEFAULT_MAX_TRAILING.
MaxOverCap == 3

\* ------------------------------------------------------------- Option<T>
\* Option<T> is a sequence of at most one element, as Option::into_iter
\* sees it.
None == <<>>
Some(x) == <<x>>
IsSome(o) == o # <<>>
Unwrap(o) == o[1]

\* ------------------------------------------------------- the token tree
\* proc_macro2::Delimiter
Delimiters == {"Parenthesis", "Brace", "Bracket", "None"}

\* A leaf TokenTree: kind is Ident, Punct or Literal; text is its printed
\* form (Punct::as_char for a Punct); span is its location handle.
Leaf(kind, text, span) == [kind |-> kind, text |-> text, span |-> span]

\* TokenTree::Group
Group(delimiter, stream, span) ==
    [kind |-> "Group", delimiter |-> delimiter, stream |-> stream, span |-> span]

\* The leaves the bounded inputs are built from.
Leaves == {Leaf("Ident", "foo", <<>>), Leaf("Punct", "+", <<>>), Leaf("Literal", "1", <<>>)}

RECURSIVE ForestsOfSize(_, _, _), TreesOfSize(_, _, _)
\* Every TokenStream with exactly n nodes, over the given leaves and
\* delimiters, all spans still unset.
ForestsOfSize(n, leaves, delims) ==
    IF n = 0 THEN {<<>>}
    ELSE UNION { { <<t>> \o f : t \in TreesOfSize(k, leaves, delims),
                                f \in ForestsOfSize(n - k, leaves, delims) }
                 : k \in 1..n }
\* Every TokenTree with exactly n nodes.
TreesOfSize(n, leaves, delims) ==
    IF n = 1
    THEN leaves \cup { Group(d, <<>>, <<>>) : d \in delims }
    ELSE { Group(d, f, <<>>) : d \in delims, f \in ForestsOfSize(n - 1, leaves, delims) }

RECURSIVE Locate(_, _)
\* The host gives every leaf and group its own location handle: here the
\* path of the node from the root.
Locate(stream, at) ==
    [i \in 1..Len(stream) |->
        IF stream[i].kind = "Group"
        THEN Group(stream[i].delimiter, Locate(stream[i].stream, Append(at, i)), Append(at, i))
        ELSE Leaf(stream[i].kind, stream[i].text, Append(at, i))]

\* The token streams of at most n nodes the host can hand over.
TokenStreams(n, leaves, delims) ==
    { Locate(f, <<>>) : f \in UNION { ForestsOfSize(k, leaves, delims) : k \in 0..n } }

\* ------------------------------------------------------------ the tokens
\* Token::Delim(char, Span)
Delim(ch, span) == [kind |-> "Delim", text |-> ch, span |-> span]

\* impl TryFrom<Token> for TokenTree: a Delim has no TokenTree.
TryFrom(tok) ==
    IF tok.kind = "Delim" THEN [ok |-> FALSE, value |-> None]
    ELSE [ok |-> TRUE, value |-> Some(Leaf(tok.kind, tok.text, tok.span))]

\* ------------------------------------------------------------- the Input
\* One entry of source_stack: (IntoIter, Option<Token>). The iterator is the
\* sequence of TokenTrees it has still to yield.
Frame(iter, close) == [iter |-> iter, close |-> close]

\* impl From<TokenStream> for Input
FromTokenStream(stream) ==
    [source_stack |-> <<Frame(stream, None)>>, source_pos |-> 0]

\* Input::is_empty
is_empty(self) == self.source_stack = <<>>

\* The (open, close) characters of a delimiter.
DelimiterChars(delimiter) ==
    CASE delimiter = "Parenthesis" -> [open |-> Some("("), close |-> Some(")")]
      [] delimiter = "Brace"       -> [open |-> Some("{"), close |-> Some("}")]
      [] delimiter = "Bracket"     -> [open |-> Some("["), close |-> Some("]")]
      [] delimiter = "None"        -> [open |-> None, close |-> None]

\* ungroup with the pending close token built from the open character.
ungroup_close_from_open(stack, tt) ==
    IF tt.kind # "Group"
    THEN [tok |-> Some(Leaf(tt.kind, tt.text, tt.span)), stack |-> stack]
    ELSE LET ch == DelimiterChars(tt.delimiter)
             close == IF IsSome(ch.close) THEN Some(Delim(Unwrap(ch.open), tt.span)) ELSE None
         IN [tok |-> IF IsSome(ch.open) THEN Some(Delim(Unwrap(ch.open), tt.span)) ELSE None,
             stack |-> Append(stack, Frame(tt.stream, close))]

\* ungroup that returns the open token of a group without pushing a frame
\* for it.
ungroup_pushes_no_frame(stack, tt) ==
    IF tt.kind # "Group"
    THEN [tok |-> Some(Leaf(tt.kind, tt.text, tt.span)), stack |-> stack]
    ELSE LET ch == DelimiterChars(tt.delimiter)
         IN [tok |-> IF IsSome(ch.open) THEN Some(Delim(Unwrap(ch.open), tt.span)) ELSE None,
             stack |-> stack]

\* ungroup that puts the frame of a group under the frame it was found in.
ungroup_pushes_below(stack, tt) ==
    IF tt.kind # "Group"
    THEN [tok |-> Some(Leaf(tt.kind, tt.text, tt.span)), stack |-> stack]
    ELSE LET ch == DelimiterChars(tt.delimiter)
             close == IF IsSome(ch.close) THEN Some(Delim(Unwrap(ch.close), tt.span)) ELSE None
         IN [tok |-> IF IsSome(ch.open) THEN Some(Delim(Unwrap(ch.open), tt.span)) ELSE None,
             stack |-> SubSeq(stack, 1, Len(stack) - 1) \o <<Frame(tt.stream, close)>>
                         \o <<stack[Len(stack)]>>]

\* Input::ungroup on source_stack: the token to return, if any, and the
\* stack it leaves.
ungroup(stack, tt) ==
    IF tt.kind # "Group"
    THEN [tok |-> Some(Leaf(tt.kind, tt.text, tt.span)), stack |-> stack]
    ELSE LET ch == DelimiterChars(tt.delimiter)
             close == IF IsSome(ch.close) THEN Some(Delim(Unwrap(ch.close), tt.span)) ELSE None
         IN [tok |-> IF IsSome(ch.open) THEN Some(Delim(Unwrap(ch.open), tt.span)) ELSE None,
             stack |-> Append(stack, Frame(tt.stream, close))]

\* The value of an expression, given as the set {e}. (The operators below
\* bind an intermediate result as `x \in {e}` so that it is computed once.)
The(set) == CHOOSE v \in set : TRUE

\* `.last_mut().and_then(|(iter, _)| iter.next())` and the match on it: the
\* top iterator advances, and a TokenTree it yields goes through ungroup.
next_step(stack) ==
    IF stack[Len(stack)].iter = <<>> THEN [tok |-> None, stack |-> stack]
    ELSE ungroup([stack EXCEPT ![Len(stack)].iter = Tail(@)], Head(stack[Len(stack)].iter))

RECURSIVE next_loop_keeps_outermost(_)
\* The while loop of Input::next, were it to leave the outermost frame on
\* the stack when that frame has nothing more to yield.
next_loop_keeps_outermost(stack) ==
    IF stack = <<>> THEN [tok |-> None, stack |-> stack]
    ELSE The({ IF IsSome(nxt.tok) THEN nxt
               ELSE IF Len(nxt.stack) = 1 THEN [tok |-> None, stack |-> nxt.stack]
               ELSE IF IsSome(nxt.stack[Len(nxt.stack)].close)
                    THEN [tok |-> nxt.stack[Len(nxt.stack)].close,
                          stack |-> SubSeq(nxt.stack, 1, Len(nxt.stack) - 1)]
                    ELSE next_loop_keeps_outermost(SubSeq(nxt.stack, 1, Len(nxt.stack) - 1))
               : nxt \in {next_step(stack)} })

RECURSIVE next_loop(_)
\* The while loop of Input::next.
next_loop(stack) ==
    IF stack = <<>> THEN [tok |-> None, stack |-> stack]
    ELSE The({ IF IsSome(nxt.tok) THEN nxt
               ELSE \* self.source_stack.pop().unwrap()
                    IF IsSome(nxt.stack[Len(nxt.stack)].close)
                    THEN [tok |-> nxt.stack[Len(nxt.stack)].close,
                          stack |-> SubSeq(nxt.stack, 1, Len(nxt.stack) - 1)]
                    ELSE next_loop(SubSeq(nxt.stack, 1, Len(nxt.stack) - 1))
               : nxt \in {next_step(stack)} })

\* Input::next
next(stack) ==
    IF stack = <<>> THEN [tok |-> None, stack |-> stack]
    ELSE next_loop(stack)

\* uncons that counts a call at end of input as well.
uncons_counts_at_end(self) ==
    The({ [ok |-> IsSome(n.tok), tok |-> n.tok,
           input |-> [source_stack |-> n.stack, source_pos |-> self.source_pos + 1]]
          : n \in {next(self.source_stack)} })

\* uncons that never moves source_pos.
uncons_does_not_count(self) ==
    The({ [ok |-> IsSome(n.tok), tok |-> n.tok,
           input |-> [source_stack |-> n.stack, source_pos |-> self.source_pos]]
          : n \in {next(self.source_stack)} })

\* StreamOnce::uncons for Input
uncons(self) ==
    The({ IF IsSome(n.tok)
          THEN [ok |-> TRUE, tok |-> n.tok,
                input |-> [source_stack |-> n.stack, source_pos |-> self.source_pos + 1]]
          ELSE [ok |-> FALSE, tok |-> None,
                input |-> [source_stack |-> n.stack, source_pos |-> self.source_pos]]
          : n \in {next(self.source_stack)} })

\* Positioned::position
position(self) == self.source_pos

RECURSIVE Remaining(_)
\* The tokens repeated uncons calls return from a stream state, up to
\* end of input.
Remaining(self) ==
    The({ IF r.ok THEN <<Unwrap(r.tok)>> \o Remaining(r.input) ELSE <<>>
          : r \in {uncons(self)} })

RECURSIVE Concat(_)
Concat(seqs) == IF seqs = <<>> THEN <<>> ELSE Head(seqs) \o Concat(Tail(seqs))

\* From<Input> that leaves out the outermost frame.
FromInput_skips_outermost(self) ==
    LET n == Len(self.source_stack)
        frame(i) == self.source_stack[n + 1 - i]
        closeOf(i) == IF IsSome(frame(i).close) THEN TryFrom(Unwrap(frame(i).close))
                      ELSE [ok |-> TRUE, value |-> None]
    IN IF \E i \in 1..(n - 1) : ~closeOf(i).ok
       THEN [ok |-> FALSE, value |-> <<>>]
       ELSE [ok |-> TRUE,
             value |-> Concat([i \in 1..(n - 1) |-> frame(i).iter \o closeOf(i).value])]

\* impl From<Input> for TokenStream: the frames from innermost to outermost,
\* each the rest of its iterator and then its close token through
\* TokenTree::try_from(tok).unwrap(), which panics on a Delim.
FromInput(self) ==
    LET n == Len(self.source_stack)
        frame(i) == self.source_stack[n + 1 - i]
        closeOf(i) == IF IsSome(frame(i).close) THEN TryFrom(Unwrap(frame(i).close))
                      ELSE [ok |-> TRUE, value |-> None]
    IN IF \E i \in 1..n : ~closeOf(i).ok
       THEN [ok |-> FALSE, value |-> <<>>]
       ELSE [ok |-> TRUE,
             value |-> Concat([i \in 1..n |-> frame(i).iter \o closeOf(i).value])]

\* ------------------------------------------------------------ operations
NoOutput == [op |-> "none"]

\* The Input has not been moved into a TokenStream or into a diagnostic.
Live == out.op \notin {"into_tree", "from_stream", "display"}

\* A caller calls uncons on the live stream. `stack_was_empty` records
\* whether source_stack was empty when the call was made.
Uncons ==
    /\ Live
    /\ \E r \in {uncons(input)} :
          /\ input' = r.input
          /\ produced' = IF r.ok THEN Append(produced, Unwrap(r.tok)) ELSE produced
          /\ out' = [op |-> "uncons", ok |-> r.ok, tok |-> r.tok,
                     stack_was_empty |-> is_empty(input)]
    /\ UNCHANGED <<tree, checkpoints, debug_assertions>>

\* A caller asks is_empty.
IsEmpty ==
    /\ Live
    /\ out' = [op |-> "is_empty", value |-> is_empty(input)]
    /\ UNCHANGED <<tree, input, produced, checkpoints, debug_assertions>>

\* A caller converts the Input back into a TokenStream, which consumes it.
\* `rest` records what uncons would still have returned.
IntoTree ==
    /\ Live
    /\ \E r \in {FromInput(input)} :
          out' = [op |-> "into_tree", ok |-> r.ok, value |-> r.value,
                  rest |-> Remaining(input)]
    /\ UNCHANGED <<tree, input, produced, checkpoints, debug_assertions>>

\* ---------------------------------------------------- the stream specification
Slots == {"a", "b"}

InitWith(streams) ==
    /\ tree \in streams
    /\ input = FromTokenStream(tree)
    /\ produced = <<>>
    /\ checkpoints = [s \in Slots |-> None]
    /\ debug_assertions = TRUE
    /\ out = NoOutput

Init == InitWith(TokenStreams(MaxNodes, Leaves, Delimiters))

Next == Uncons \/ IsEmpty \/ IntoTree

Spec == Init /\ [][Next]_vars

\* Callers that go on calling uncons, and may ask is_empty in between: each
\* call returns, so the next one is made.
NextDrain == Uncons \/ IsEmpty

SpecDrain == Init /\ [][NextDrain]_vars /\ WF_vars(Uncons)

\* --------------------------------------------------------------- parsers
\* StreamOnce::is_partial for Input
is_partial(self) == FALSE

\* combine::stream::uncons, as the parsers call it: a token is a committed
\* success; end of input of a stream that is not partial is an uncommitted
\* error at the stream's position.
stream_uncons(self) ==
    The({ IF r.ok
          THEN [res |-> "CommitOk", tok |-> r.tok, at |-> position(r.input), input |-> r.input]
          ELSE [res |-> IF is_partial(r.input) THEN "CommitErr" ELSE "PeekErr",
                tok |-> None, at |-> position(r.input), input |-> r.input]
          : r \in {uncons(self)} })

\* What parse_lazy returns, with the stream it leaves.
ParseOk(tok, self) == [res |-> "CommitOk", value |-> Some(tok), at |-> position(self), input |-> self]
ParseErr(res, at, self) == [res |-> res, value |-> None, at |-> at, input |-> self]

\* Ident::parse_lazy that hands the stream back untouched when it rejects
\* the token.
Ident_parse_lazy_rewinds(self) ==
    The({ IF r.res = "CommitOk"
          THEN IF Unwrap(r.tok).kind = "Ident"
               THEN ParseOk(Unwrap(r.tok), r.input)
               ELSE ParseErr("PeekErr", position(self), self)
          ELSE ParseErr(r.res, r.at, r.input)
          : r \in {stream_uncons(self)} })

\* Ident::parse_lazy
Ident_parse_lazy(self) ==
    The({ IF r.res = "CommitOk"
          THEN IF Unwrap(r.tok).kind = "Ident"
               THEN ParseOk(Unwrap(r.tok), r.input)
               ELSE ParseErr("PeekErr", position(self), r.input)
          ELSE ParseErr(r.res, r.at, r.input)
          : r \in {stream_uncons(self)} })

\* Keyword::parse_lazy
Keyword_parse_lazy(word, self) ==
    The({ IF r.res = "CommitOk"
          THEN IF Unwrap(r.tok).kind = "Ident" /\ Unwrap(r.tok).text = word
               THEN ParseOk(Unwrap(r.tok), r.input)
               ELSE ParseErr("PeekErr", position(self), r.input)
          ELSE ParseErr(r.res, r.at, r.input)
          : r \in {stream_uncons(self)} })

\* Literal::parse_lazy
Literal_parse_lazy(self) ==
    The({ IF r.res = "CommitOk"
          THEN IF Unwrap(r.tok).kind = "Literal"
               THEN ParseOk(Unwrap(r.tok), r.input)
               ELSE ParseErr("PeekErr", position(self), r.input)
          ELSE ParseErr(r.res, r.at, r.input)
          : r \in {stream_uncons(self)} })

\* Punct::parse_lazy that also swallows the token after the one it matched.
Punct_parse_lazy_swallows(c, self) ==
    The({ IF r.res = "CommitOk"
          THEN IF Unwrap(r.tok).kind = "Punct" /\ Unwrap(r.tok).text = c
               THEN ParseOk(Unwrap(r.tok), stream_uncons(r.input).input)
               ELSE ParseErr("PeekErr", position(self), r.input)
          ELSE ParseErr(r.res, r.at, r.input)
          : r \in {stream_uncons(self)} })

\* Punct::parse_lazy
Punct_parse_lazy(c, self) ==
    The({ IF r.res = "CommitOk"
          THEN IF Unwrap(r.tok).kind = "Punct" /\ Unwrap(r.tok).text = c
               THEN ParseOk(Unwrap(r.tok), r.input)
               ELSE ParseErr("PeekErr", position(self), r.input)
          ELSE ParseErr(r.res, r.at, r.input)
          : r \in {stream_uncons(self)} })

\* Delim::parse_lazy that compares Token::to_char, which a Punct has too.
Delim_parse_lazy_by_char(c, self) ==
    The({ IF r.res = "CommitOk"
          THEN IF Unwrap(r.tok).kind \in {"Delim", "Punct"} /\ Unwrap(r.tok).text = c
               THEN ParseOk(Unwrap(r.tok), r.input)
               ELSE ParseErr("PeekErr", position(self), r.input)
          ELSE ParseErr(r.res, r.at, r.input)
          : r \in {stream_uncons(self)} })

\* Delim::parse_lazy
Delim_parse_lazy(c, self) ==
    The({ IF r.res = "CommitOk"
          THEN IF Unwrap(r.tok).kind = "Delim" /\ Unwrap(r.tok).text = c
               THEN ParseOk(Unwrap(r.tok), r.input)
               ELSE ParseErr("PeekErr", position(self), r.input)
          ELSE ParseErr(r.res, r.at, r.input)
          : r \in {stream_uncons(self)} })

\* The characters delim() asserts its argument to be among.
DelimiterCharSet == {"(", ")", "[", "]", "{", "}"}

\* delim(c): the debug_assert! stops an illegal character only in a build
\* with debug assertions.
delim(c) == [ok |-> ~(debug_assertions /\ c \notin DelimiterCharSet), c |-> c]

\* The arguments the parsers are constructed with.
KeywordArgs == {"foo", "bar"}
PunctArgs == {"+", "("}
DelimArgs == {"(", ")", "+"}

\* What a parser adds to the error as expected: a &'static str or
\* combine::error::Token(..) of a Token.
Expected_static(text) == [info |-> "Static", text |-> text]
Expected_token(tok) == [info |-> "Token", tok |-> tok]

\* impl Display for Token
Token_fmt(tok) == tok.text

\* How an expected item reads in the error message.
Info_fmt(info) == IF info.info = "Static" THEN info.text ELSE Token_fmt(info.tok)

\* Ident::add_error
Ident_add_error == Expected_static("IDENT")

\* Keyword::add_error
Keyword_add_error(word) == Expected_static(word)

\* Literal::add_error that says what Ident::add_error says.
Literal_add_error_as_ident == Expected_static("IDENT")

\* Literal::add_error
Literal_add_error == Expected_static("LITERAL")

\* Punct::add_error
Punct_add_error(c) == Expected_token(Leaf("Punct", c, <<>>))

\* Delim::add_error
Delim_add_error(c) == Expected_token(Delim(c, <<>>))

\* The caller's record of one parse_lazy call: the parser, its result, the
\* stream as it was before the call and, for an uncommitted error, what the
\* parser's add_error put into it.
Parsed(parser, arg, r, add_error) ==
    [op |-> "parse", parser |-> parser, arg |-> arg, res |-> r.res, value |-> r.value,
     at |-> r.at, before |-> input,
     expected |-> IF r.res = "PeekErr" THEN Some(add_error) ELSE None]

\* The history once a parser has left the stream as `after`: with the token
\* the parser took from the stream, if it took one.
Consumed(after) ==
    IF position(after) > position(input)
    THEN Append(produced, Remaining(input)[1])
    ELSE produced

ParseIdent ==
    /\ \E r \in {Ident_parse_lazy(input)} :
          /\ input' = r.input
          /\ produced' = Consumed(r.input)
          /\ out' = Parsed("ident", "", r, Ident_add_error)
    /\ UNCHANGED <<tree, checkpoints, debug_assertions>>

ParseKeyword ==
    /\ \E word \in KeywordArgs :
        \E r \in {Keyword_parse_lazy(word, input)} :
           /\ input' = r.input
           /\ produced' = Consumed(r.input)
           /\ out' = Parsed("keyword", word, r, Keyword_add_error(word))
    /\ UNCHANGED <<tree, checkpoints, debug_assertions>>

ParseLiteral ==
    /\ \E r \in {Literal_parse_lazy(input)} :
          /\ input' = r.input
          /\ produced' = Consumed(r.input)
          /\ out' = Parsed("literal", "", r, Literal_add_error)
    /\ UNCHANGED <<tree, checkpoints, debug_assertions>>

ParsePunct ==
    /\ \E c \in PunctArgs :
        \E r \in {Punct_parse_lazy(c, input)} :
           /\ input' = r.input
           /\ produced' = Consumed(r.input)
           /\ out' = Parsed("punct", c, r, Punct_add_error(c))
    /\ UNCHANGED <<tree, checkpoints, debug_assertions>>

ParseDelim ==
    /\ \E c \in DelimArgs :
        /\ delim(c).ok
        /\ \E r \in {Delim_parse_lazy(delim(c).c, input)} :
              /\ input' = r.input
              /\ produced' = Consumed(r.input)
              /\ out' = Parsed("delim", c, r, Delim_add_error(delim(c).c))
    /\ UNCHANGED <<tree, checkpoints, debug_assertions>>

InitParse ==
    /\ tree \in TokenStreams(MaxParseNodes, Leaves, Delimiters)
    /\ input = FromTokenStream(tree)
    /\ produced = <<>>
    /\ checkpoints = [s \in Slots |-> None]
    /\ debug_assertions \in BOOLEAN
    /\ out = NoOutput

NextParse == ParseIdent \/ ParseKeyword \/ ParseLiteral \/ ParsePunct \/ ParseDelim

SpecParse == InitParse /\ [][NextParse]_vars

\* ------------------------------------------------------ a grammar: group
\* The delimiters group() has an (open, close) pair for; it panics on
\* Delimiter::None.
GroupDelimiters == {"Parenthesis", "Brace", "Bracket"}

\* let (open, close) = match delimiter { .. }
group_chars(delimiter) ==
    CASE delimiter = "Parenthesis" -> [open |-> "(", close |-> ")"]
      [] delimiter = "Brace"       -> [open |-> "{", close |-> "}"]
      [] delimiter = "Bracket"     -> [open |-> "[", close |-> "]"]

\* The error of a sequence whose parser failed with r: it is committed once
\* an earlier parser of the sequence has consumed input, and what is
\* expected is what the parser that failed adds.
SequenceErr(r, committed, add_error) ==
    [res |-> IF committed THEN "CommitErr" ELSE r.res, value |-> None, at |-> r.at,
     expected |-> Some(add_error), input |-> r.input]

\* group(delimiter, ident()) that does not look for the close Delim.
group_without_close(delimiter, self) ==
    The({ IF r1.res # "CommitOk"
          THEN SequenceErr(r1, FALSE, Delim_add_error(group_chars(delimiter).open))
          ELSE The({ IF r2.res # "CommitOk"
                     THEN SequenceErr(r2, TRUE, Ident_add_error)
                     ELSE [res |-> "CommitOk", value |-> r2.value, at |-> r2.at,
                           expected |-> None, input |-> r2.input]
                     : r2 \in {Ident_parse_lazy(r1.input)} })
          : r1 \in {Delim_parse_lazy(delim(group_chars(delimiter).open).c, self)} })

\* group(delimiter, ident()) of the tests, parsed:
\* delim(open).with(ident()).skip(delim(close)) runs the three parsers in
\* turn, stops at the first that fails, and yields the identifier.
group(delimiter, self) ==
    The({ IF r1.res # "CommitOk"
          THEN SequenceErr(r1, FALSE, Delim_add_error(group_chars(delimiter).open))
          ELSE The({ IF r2.res # "CommitOk"
                     THEN SequenceErr(r2, TRUE, Ident_add_error)
                     ELSE The({ IF r3.res # "CommitOk"
                                THEN SequenceErr(r3, TRUE,
                                                 Delim_add_error(group_chars(delimiter).close))
                                ELSE [res |-> "CommitOk", value |-> r2.value, at |-> r3.at,
                                      expected |-> None, input |-> r3.input]
                                : r3 \in {Delim_parse_lazy(
                                              delim(group_chars(delimiter).close).c,
                                              r2.input)} })
                     : r2 \in {Ident_parse_lazy(r1.input)} })
          : r1 \in {Delim_parse_lazy(delim(group_chars(delimiter).open).c, self)} })

\* A caller parses the stream with group(delimiter, ident()).
ParseGroup ==
    /\ \E delimiter \in GroupDelimiters :
        \E r \in {group(delimiter, input)} :
           /\ input' = r.input
           /\ produced' = produced \o SubSeq(Remaining(input), 1,
                                             position(r.input) - position(input))
           /\ out' = [op |-> "group", delimiter |-> delimiter, res |-> r.res,
                      value |-> r.value, at |-> r.at, expected |-> r.expected,
                      before |-> input]
    /\ UNCHANGED <<tree, checkpoints, debug_assertions>>

\* The token trees of the grammar specification: up to MaxGroupNodes nodes.
MaxGroupNodes == 3

InitGroup == InitWith(TokenStreams(MaxGroupNodes, Leaves, Delimiters))

NextGroup == ParseGroup

SpecGroup == InitGroup /\ [][NextGroup]_vars

\* ----------------------------------------------------- checkpoint and reset
\* A checkpoint that copies only the innermost frame.
checkpoint_top_frame(self) ==
    [self EXCEPT !.source_stack =
        IF self.source_stack = <<>> THEN <<>>
        ELSE <<self.source_stack[Len(self.source_stack)]>>]

\* A reset that takes the stack of the checkpoint and keeps the counter.
reset_keeps_position(self, cp) == [cp EXCEPT !.source_pos = self.source_pos]

\* ResetStream::checkpoint
checkpoint(self) == self

\* ResetStream::reset: the stream after `*self = checkpoint`.
reset(self, cp) == cp

\* A caller takes a checkpoint and keeps it in a free slot. `taken` records
\* what the stream was at that moment.
Checkpoint(s) ==
    /\ checkpoints[s] = None
    /\ checkpoints' = [checkpoints EXCEPT ![s] =
          Some([snapshot |-> checkpoint(input),
                taken |-> [pos |-> position(input), rest |-> Remaining(input),
                           produced |-> produced]])]
    /\ out' = [op |-> "checkpoint", slot |-> s]
    /\ UNCHANGED <<tree, input, produced, debug_assertions>>

\* A caller resets the stream to a checkpoint it holds; the checkpoint is
\* moved into the call.
Reset(s) ==
    /\ IsSome(checkpoints[s])
    /\ LET cp == Unwrap(checkpoints[s])
       IN /\ input' = reset(input, cp.snapshot)
          /\ produced' = cp.taken.produced
          /\ out' = [op |-> "reset", slot |-> s, taken |-> cp.taken, from |-> position(input)]
    /\ checkpoints' = [checkpoints EXCEPT ![s] = None]
    /\ UNCHANGED <<tree, debug_assertions>>

\* The token trees of the checkpoint specification nest, and hide, one leaf.
ResetLeaves == {Leaf("Ident", "foo", <<>>)}
ResetDelimiters == {"Parenthesis", "None"}

InitReset == InitWith(TokenStreams(MaxResetNodes, ResetLeaves, ResetDelimiters))

NextReset == Uncons \/ (\E s \in Slots : Checkpoint(s)) \/ (\E s \in Slots : Reset(s))

SpecReset == InitReset /\ [][NextReset]_vars

\* ------------------------------------------------------------ diagnostic
\* const DEFAULT_MAX_TRAILING
DEFAULT_MAX_TRAILING == 50

\* One turn of the loop of from_stream, were it to keep a Delim like any
\* other token.
from_stream_turn_keeps_delims(st) ==
    IF st.done THEN st
    ELSE The({ IF ~r.ok THEN [input |-> r.input, trailing |-> st.trailing, done |-> TRUE]
               ELSE [input |-> r.input,
                     trailing |-> st.trailing \o r.tok,
                     done |-> Len(st.trailing \o r.tok) > DEFAULT_MAX_TRAILING]
               : r \in {uncons(st.input)} })

\* One turn of the loop of Incomplete::from_stream:
\* `while let Ok(tok) = input.uncons()` extends trailing with the token's
\* TokenTree, if it has one, and breaks once trailing is longer than
\* DEFAULT_MAX_TRAILING. A loop that has ended stays as it is.
from_stream_turn(st) ==
    IF st.done THEN st
    ELSE The({ IF ~r.ok THEN [input |-> r.input, trailing |-> st.trailing, done |-> TRUE]
               ELSE The({ [input |-> r.input, trailing |-> extended,
                           done |-> Len(extended) > DEFAULT_MAX_TRAILING]
                          : extended \in {st.trailing \o TryFrom(Unwrap(r.tok)).value} })
               : r \in {uncons(st.input)} })

RECURSIVE from_stream_loop(_, _)
\* n turns of the loop of from_stream, evaluated by halves.
from_stream_loop(st, n) ==
    IF n = 0 THEN st
    ELSE IF n = 1 THEN from_stream_turn(st)
    ELSE The({ from_stream_loop(half, n - (n \div 2))
               : half \in {from_stream_loop(st, n \div 2)} })

\* No stream of the model holds more tokens than this, so no loop over
\* uncons takes more turns.
MaxTurns == 2 * (DEFAULT_MAX_TRAILING + MaxOverCap + MaxDiagNodes + 1)

\* Incomplete::from_stream: Option<Incomplete>
from_stream(self) ==
    The({ IF Len(st.trailing) > 0
          THEN Some([trailing |-> st.trailing, max_trailing |-> DEFAULT_MAX_TRAILING])
          ELSE None
          : st \in {from_stream_loop([input |-> self, trailing |-> <<>>, done |-> FALSE],
                                     MaxTurns)} })

\* One more uncons of a drain that collects every token.
drain_turn(st) ==
    IF st.done THEN st
    ELSE The({ [input |-> r.input, tokens |-> st.tokens \o r.tok, done |-> ~r.ok]
               : r \in {uncons(st.input)} })

RECURSIVE drain_loop(_, _)
drain_loop(st, n) ==
    IF n = 0 THEN st
    ELSE IF n = 1 THEN drain_turn(st)
    ELSE The({ drain_loop(half, n - (n \div 2)) : half \in {drain_loop(st, n \div 2)} })

\* Remaining, for the long streams: the tokens repeated uncons calls return,
\* up to end of input.
RemainingLong(self) ==
    drain_loop([input |-> self, tokens |-> <<>>, done |-> FALSE], MaxTurns).tokens

\* impl fmt::Display for Incomplete: the token trees written, and the N of
\* the suffix ` [and N more ...]` when there is one.
fmt(self) ==
    [stream |-> SubSeq(self.trailing, 1,
                       IF Len(self.trailing) < self.max_trailing THEN Len(self.trailing)
                       ELSE self.max_trailing),
     more |-> IF Len(self.trailing) > self.max_trailing
              THEN Some(Len(self.trailing) - self.max_trailing)
              ELSE None]

\* A caller hands what is left of the stream to Incomplete::from_stream,
\* which consumes it. `rest` records what uncons would still have returned.
FromStream ==
    /\ Live
    /\ out' = [op |-> "from_stream", value |-> from_stream(input),
               rest |-> RemainingLong(input)]
    /\ UNCHANGED <<tree, input, produced, checkpoints, debug_assertions>>

\* A caller formats the diagnostic it was given.
Display ==
    /\ out.op = "from_stream"
    /\ IsSome(out.value)
    /\ out' = [op |-> "display", text |-> fmt(Unwrap(out.value)),
               trailing |-> Unwrap(out.value).trailing, rest |-> out.rest]
    /\ UNCHANGED <<tree, input, produced, checkpoints, debug_assertions>>

\* A token stream of n identifiers.
Idents(n) == [i \in 1..n |-> Leaf("Ident", "foo", <<>>)]

\* The token streams given to the diagnostic: the small nested ones, and
\* streams of about DEFAULT_MAX_TRAILING identifiers, bare and in a group.
DiagStreams ==
    TokenStreams(MaxDiagNodes, Leaves, Delimiters)
    \cup { Locate(Idents(n), <<>>)
           : n \in (DEFAULT_MAX_TRAILING - 1)..(DEFAULT_MAX_TRAILING + MaxOverCap) }
    \cup { Locate(<<Group("Parenthesis", Idents(n), <<>>)>>, <<>>)
           : n \in (DEFAULT_MAX_TRAILING - 1)..(DEFAULT_MAX_TRAILING + MaxOverCap) }

InitDiag == InitWith(DiagStreams)

NextDiag == Uncons \/ FromStream \/ Display

SpecDiag == InitDiag /\ [][NextDiag]_vars

\* ------------------------------------------------- properties of the stream
\* uncons has reported end of input on the live stream.
Drained == out.op = "uncons" /\ ~out.ok

OpenChars == {"(", "{", "["}
Closer(ch) == CASE ch = "(" -> ")" [] ch = "{" -> "}" [] ch = "[" -> "]"

IsOpen(tok) == tok.kind = "Delim" /\ tok.text \in OpenChars
IsClose(tok) == tok.kind = "Delim" /\ tok.text \notin OpenChars

\* Location p is that of a proper ancestor of the node at location q.
StrictlyInside(p, q) == Len(p) < Len(q) /\ SubSeq(q, 1, Len(p)) = p

RECURSIVE NodeAt(_, _)
\* The node of a token stream at a location.
NodeAt(stream, path) ==
    IF Len(path) = 1 THEN stream[path[1]]
    ELSE NodeAt(stream[path[1]].stream, Tail(path))

\* The token a leaf is flattened to, or the open Delim of a group.
FirstToken(tt) ==
    IF tt.kind = "Group"
    THEN Delim(Unwrap(DelimiterChars(tt.delimiter).open), tt.span)
    ELSE Leaf(tt.kind, tt.text, tt.span)

\* In seq, the open Delim at index i has exactly one other Delim of its
\* group, its closer, later in seq, and the tokens strictly between the two
\* are exactly the tokens located inside the group.
ClosedOnce(seq, i) ==
    LET mates == { j \in DOMAIN seq : j # i /\ seq[j].kind = "Delim" /\ seq[j].span = seq[i].span }
    IN /\ Cardinality(mates) = 1
       /\ \A j \in mates :
            /\ i < j
            /\ seq[j].text = Closer(seq[i].text)
            /\ \A k \in DOMAIN seq : (i < k /\ k < j) <=> StrictlyInside(seq[i].span, seq[k].span)

\* In seq, every child of the group opened at index i that has a token of
\* its own (a leaf, or a group with a surface delimiter) has it in seq.
ChildrenProduced(seq, i) ==
    LET g == NodeAt(tree, seq[i].span)
    IN \A c \in DOMAIN g.stream :
         (g.stream[c].kind = "Group" => g.stream[c].delimiter # "None")
            => \E k \in DOMAIN seq : seq[k] = FirstToken(g.stream[c])

\* C1: once the stream is drained, the tokens produced are properly nested:
\* every open Delim produced has exactly one matching close Delim, produced
\* after it; the tokens between the two are exactly the tokens of the
\* group's content; every child of the group is among them; and no close
\* Delim is produced without its open Delim.
C1_ProperlyNested ==
    Drained =>
        /\ \A i \in DOMAIN produced :
             IsOpen(produced[i]) => ClosedOnce(produced, i) /\ ChildrenProduced(produced, i)
        /\ \A j \in DOMAIN produced :
             IsClose(produced[j]) =>
                \E i \in 1..(j - 1) : IsOpen(produced[i]) /\ produced[i].span = produced[j].span

\* A drained stream that produced a group nested in a group, with a leaf
\* inside the inner one.
C1_Witness ==
    /\ Drained
    /\ Len(produced) >= 5
    /\ IsOpen(produced[1]) /\ IsOpen(produced[2])
    /\ ~(produced[3].kind = "Delim")

\* The locations at which produce_next meets a group without a surface
\* delimiter: at the top level, or among the children of a group whose open
\* Delim was produced.
NoneGroupsMet ==
    { <<i>> : i \in { n \in DOMAIN tree : tree[n].kind = "Group" /\ tree[n].delimiter = "None" } }
    \cup UNION { LET g == NodeAt(tree, produced[i].span)
                 IN { g.stream[c].span :
                        c \in { n \in DOMAIN g.stream : g.stream[n].kind = "Group"
                                                         /\ g.stream[n].delimiter = "None" } }
                 : i \in { n \in DOMAIN produced : IsOpen(produced[n]) } }

\* C2: once the stream is drained, a group without a surface delimiter that
\* produce_next met has contributed no Delim, and every leaf among its
\* children has been produced, before every token located after the group
\* in its parent.
C2_NoneGroupFlattened ==
    Drained =>
        \A p \in NoneGroupsMet :
            LET g == NodeAt(tree, p)
            IN /\ \A k \in DOMAIN produced : produced[k].span # p
               /\ \A c \in DOMAIN g.stream :
                    g.stream[c].kind # "Group" =>
                        \E k \in DOMAIN produced :
                            /\ produced[k] = FirstToken(g.stream[c])
                            /\ \A m \in DOMAIN produced :
                                 ( /\ Len(produced[m].span) >= Len(p)
                                   /\ SubSeq(produced[m].span, 1, Len(p) - 1) = SubSeq(p, 1, Len(p) - 1)
                                   /\ produced[m].span[Len(p)] > p[Len(p)] )
                                 => k < m

\* C8: whenever is_empty is asked, it answers true exactly when the next
\* uncons would report end of input.
C8_IsEmptyIffExhausted ==
    out.op = "is_empty" => (out.value <=> ~uncons(input).ok)

\* The printed content of a token or leaf, without its location.
Content(seq) == [i \in DOMAIN seq |-> [kind |-> seq[i].kind, text |-> seq[i].text]]

\* C9: in every stream state, converting the Input back into a TokenStream
\* completes, and flattening the result gives the tokens uncons would have
\* returned from that state.
C9_IntoTreeKeepsUnconsumed ==
    out.op = "into_tree" =>
        /\ out.ok
        /\ Content(Remaining(FromTokenStream(out.value))) = Content(out.rest)

LeafOnly(stream) == \A i \in DOMAIN stream : stream[i].kind # "Group"

\* C10: for a token stream of leaves only, converting the Input back before
\* any token was consumed returns the original token stream.
C10_LeafRoundTrip ==
    (out.op = "into_tree" /\ produced = <<>> /\ LeafOnly(tree)) =>
        out.ok /\ out.value = tree

\* A leaf-only stream of several different leaves converted back untouched.
C10_Witness ==
    /\ out.op = "into_tree" /\ out.ok
    /\ produced = <<>> /\ LeafOnly(tree)
    /\ Len(tree) >= 2 /\ tree[1].kind # tree[2].kind
    /\ out.value = tree

\* ------------------------------------------------ properties of the parsers
\* The last operation was a parser that failed.
ParseFailed == out.op = "parse" /\ out.res # "CommitOk"
\* The last operation was a parser that succeeded.
ParseSucceeded == out.op = "parse" /\ out.res = "CommitOk"

\* C3, as claimed: a parser that fails leaves the stream's position and the
\* tokens it will still produce as they were before the call.
C3_FailureDoesNotAdvance ==
    ParseFailed =>
        /\ position(input) = position(out.before)
        /\ Remaining(input) = Remaining(out.before)

\* C3, amended: a parser that fails returns an uncommitted error at the
\* position the stream had before the call; the stream is as it was only
\* when it was exhausted, and otherwise has advanced past the one token the
\* parser rejected.
C3_FailureIsUncommitted ==
    ParseFailed =>
        /\ out.res = "PeekErr"
        /\ out.at = position(out.before)
        /\ IF Remaining(out.before) = <<>>
           THEN position(input) = position(out.before) /\ Remaining(input) = <<>>
           ELSE /\ position(input) = position(out.before) + 1
                /\ Remaining(input) = Tail(Remaining(out.before))

\* A parser failed on a token it does not accept, with tokens left after it.
C3_Witness ==
    /\ ParseFailed
    /\ out.parser = "ident"
    /\ Len(Remaining(out.before)) >= 2
    /\ Remaining(out.before)[1].kind = "Punct"
    /\ position(input) = position(out.before) + 1

\* C4: a parser that succeeds has consumed exactly one token: the position
\* is one more than before and the tokens still to come are those of before
\* without the first.
C4_SuccessConsumesOne ==
    ParseSucceeded =>
        /\ position(input) = position(out.before) + 1
        /\ Remaining(out.before) # <<>>
        /\ Remaining(input) = Tail(Remaining(out.before))

\* punct('+') succeeded on `+ +` and left exactly one `+`.
C4_Witness ==
    /\ ParseSucceeded
    /\ out.parser = "punct" /\ out.arg = "+"
    /\ Content(tree) = <<[kind |-> "Punct", text |-> "+"], [kind |-> "Punct", text |-> "+"]>>
    /\ position(out.before) = 0
    /\ Content(Remaining(input)) = <<[kind |-> "Punct", text |-> "+"]>>

\* The acceptance rule of each parser for the next token of a stream.
Accepts(parser, arg, rest) ==
    /\ rest # <<>>
    /\ CASE parser = "ident"   -> rest[1].kind = "Ident"
         [] parser = "keyword" -> rest[1].kind = "Ident" /\ rest[1].text = arg
         [] parser = "literal" -> rest[1].kind = "Literal"
         [] parser = "punct"   -> rest[1].kind = "Punct" /\ rest[1].text = arg
         [] parser = "delim"   -> rest[1].kind = "Delim" /\ rest[1].text = arg

\* C5: a parser succeeds exactly when the stream has a next token and that
\* token satisfies the parser's acceptance rule; it then returns that token;
\* otherwise it fails.
C5_SucceedsIffAccepted ==
    out.op = "parse" =>
        /\ out.res \in {"CommitOk", "PeekErr"}
        /\ (out.res = "CommitOk") <=> Accepts(out.parser, out.arg, Remaining(out.before))
        /\ out.res = "CommitOk" => out.value = Some(Remaining(out.before)[1])

\* punct('(') was refused the Delim `(`.
C5_Witness ==
    /\ ParseFailed
    /\ out.parser = "punct" /\ out.arg = "("
    /\ Remaining(out.before) # <<>>
    /\ Remaining(out.before)[1].kind = "Delim"
    /\ Remaining(out.before)[1].text = "("

\* ------------------------------------------- properties of checkpoint/reset
\* C6: right after a reset, the stream's position and the tokens it will
\* produce are those of the moment the checkpoint was taken.
C6_ResetRestoresSnapshot ==
    out.op = "reset" =>
        /\ position(input) = out.taken.pos
        /\ Remaining(input) = out.taken.rest

\* A reset that took the stream back over tokens it had produced since the
\* checkpoint, inside a group.
C6_Witness ==
    /\ out.op = "reset"
    /\ out.from > out.taken.pos
    /\ out.taken.pos > 0
    /\ Len(input.source_stack) >= 2
    /\ Remaining(input) = out.taken.rest

\* C7: every checkpoint the caller holds still is the stream of the moment
\* it was taken, whatever the live stream has done since (produced tokens,
\* been reset to another checkpoint), and a reset to it gives that stream.
C7_CheckpointsIndependent ==
    /\ \A s \in Slots :
         IsSome(checkpoints[s]) =>
            /\ position(Unwrap(checkpoints[s]).snapshot) = Unwrap(checkpoints[s]).taken.pos
            /\ Remaining(Unwrap(checkpoints[s]).snapshot) = Unwrap(checkpoints[s]).taken.rest
    /\ out.op = "reset" =>
            /\ position(input) = out.taken.pos
            /\ Remaining(input) = out.taken.rest

\* The stream was reset to one of two checkpoints taken at different
\* positions, after producing tokens past both, and the other is still held.
C7_Witness ==
    /\ out.op = "reset"
    /\ \E s \in Slots :
         /\ IsSome(checkpoints[s])
         /\ Unwrap(checkpoints[s]).taken.pos # out.taken.pos
         /\ out.from > Unwrap(checkpoints[s]).taken.pos
         /\ out.from > out.taken.pos
         /\ Remaining(Unwrap(checkpoints[s]).snapshot) = Unwrap(checkpoints[s]).taken.rest

\* C11: a delim parser is only ever constructed with one of the characters
\* ( ) [ ] { }, in every build, so none that is matched against the stream
\* holds another character.
C11_DelimCharAlwaysLegal ==
    (out.op = "parse" /\ out.parser = "delim") => out.arg \in DelimiterCharSet

\* --------------------------------------------- properties of the diagnostic
\* The tokens of a sequence that are not Delims.
Printable(seq) == LET keep(tok) == tok.kind # "Delim" IN SelectSeq(seq, keep)

Min(a, b) == IF a < b THEN a ELSE b

\* C12: when more than DEFAULT_MAX_TRAILING printable tokens were left, the
\* rendered diagnostic ends with `[and N more ...]`, N being the number of
\* printable tokens left minus DEFAULT_MAX_TRAILING.
C12_SuffixCountsAllRemaining ==
    (out.op = "display" /\ Len(Printable(out.rest)) > DEFAULT_MAX_TRAILING) =>
        out.text.more = Some(Len(Printable(out.rest)) - DEFAULT_MAX_TRAILING)

\* C13: from_stream returns no diagnostic exactly when no token was left.
C13_NothingToReportIffExhausted ==
    out.op = "from_stream" => (out.value = None <=> out.rest = <<>>)

\* C19: from_stream captures, in stream order and without any Delim, the
\* printable tokens that were left, up to one more than DEFAULT_MAX_TRAILING
\* of them, and the rendered diagnostic shows the first
\* min(DEFAULT_MAX_TRAILING, count) of them.
C19_DelimsDiscardedPrefixShown ==
    /\ out.op = "from_stream" =>
         LET captured == IF IsSome(out.value) THEN Unwrap(out.value).trailing ELSE <<>>
         IN captured = SubSeq(Printable(out.rest), 1,
                              Min(Len(Printable(out.rest)), DEFAULT_MAX_TRAILING + 1))
    /\ out.op = "display" =>
         /\ Len(out.text.stream) <= DEFAULT_MAX_TRAILING
         /\ out.text.stream = SubSeq(out.trailing, 1, Min(DEFAULT_MAX_TRAILING, Len(out.trailing)))
         /\ out.text.stream = SubSeq(Printable(out.rest), 1,
                                     Min(DEFAULT_MAX_TRAILING, Len(Printable(out.rest))))

\* A diagnostic rendered for a stream that had a pending close Delim and
\* more than DEFAULT_MAX_TRAILING identifiers left.
C19_Witness ==
    /\ out.op = "display"
    /\ Len(Printable(out.rest)) > DEFAULT_MAX_TRAILING
    /\ Len(Printable(out.rest)) < Len(out.rest)
    /\ Len(out.text.stream) = DEFAULT_MAX_TRAILING

\* ------------------------------------------- properties of end of stream
\* C14: once source_stack is empty, which is how Input::next leaves it when
\* it returns None, every later uncons returns end of input, the position
\* does not move, the stream stays as it is and is_empty answers true.
C14_EndOfStreamIsFinal ==
    [][is_empty(input) =>
          /\ input' = input
          /\ position(input') = position(input)
          /\ is_empty(input')
          /\ out'.op = "uncons" => (~out'.ok /\ out'.tok = None)
          /\ out'.op = "is_empty" => out'.value]_vars

\* An uncons made after the stack had been emptied by an earlier one, on a
\* stream that had produced tokens.
C14_Witness ==
    /\ out.op = "uncons"
    /\ out.stack_was_empty
    /\ ~out.ok
    /\ Len(produced) >= 2

\* C15: the position is 0 on a new stream and always the number of tokens
\* produced; an uncons that returns a token adds exactly 1 to it, one that
\* returns end of input leaves it, and only reset ever lowers it.
C15_PositionCountsTokens ==
    /\ position(input) = 0
    /\ [](position(input) = Len(produced))
    /\ [][/\ out'.op = "uncons" =>
               position(input') = position(input) + (IF out'.ok THEN 1 ELSE 0)
          /\ out'.op # "reset" => position(input') >= position(input)]_vars

\* A token produced after a reset took the position back below that of a
\* checkpoint still held.
C15_Witness ==
    /\ out.op = "uncons"
    /\ out.ok
    /\ \E s \in Slots :
          /\ IsSome(checkpoints[s])
          /\ Unwrap(checkpoints[s]).taken.pos > position(input)

\* The groups whose open Delim has been produced and whose close Delim has
\* not.
OpenGroups(seq) == Len(SelectSeq(seq, IsOpen)) - Len(SelectSeq(seq, IsClose))

\* C18: between uncons calls, until end of input has been returned, the
\* stack holds the top-level frame and one frame for each group that is
\* open.
C18_DepthIsNestingLevel ==
    ~is_empty(input) => Len(input.source_stack) = 1 + OpenGroups(produced)

\* Two groups open, one inside the other, after another group was closed.
C18_Witness ==
    /\ Len(input.source_stack) >= 3
    /\ \E i \in 1..Len(produced) : IsClose(produced[i])

\* C20: callers that go on calling uncons get end of input at some point,
\* and from then on source_stack is empty.
C20_DrainsToEmptyStack ==
    /\ <>(Drained /\ is_empty(input))
    /\ [](Drained => is_empty(input))
    /\ <>[]is_empty(input)

\* End of input returned after a group and a token after it were produced.
C20_Witness ==
    /\ Drained
    /\ is_empty(input)
    /\ Len(produced) >= 3
    /\ \E i \in 1..Len(produced) : IsClose(produced[i])

\* ------------------------------------------------ properties of errors
\* The parsers of the model, each with its argument.
Matchers ==
    {<<"ident", "">>, <<"literal", "">>} \cup {<<"keyword", w>> : w \in KeywordArgs}
        \cup {<<"punct", c>> : c \in PunctArgs} \cup {<<"delim", c>> : c \in DelimArgs}

\* What each parser is to report as expected.
Expectation(parser, arg) ==
    CASE parser = "ident"   -> [info |-> "Static", text |-> "IDENT"]
      [] parser = "keyword" -> [info |-> "Static", text |-> arg]
      [] parser = "literal" -> [info |-> "Static", text |-> "LITERAL"]
      [] parser = "punct"   -> [info |-> "Token", tok |-> [kind |-> "Punct", text |-> arg, span |-> <<>>]]
      [] parser = "delim"   -> [info |-> "Token", tok |-> [kind |-> "Delim", text |-> arg, span |-> <<>>]]

\* C16: a parser that fails has put its own expectation into the error:
\* ident IDENT, keyword(w) w, literal LITERAL, punct(c) the Punct c and
\* delim(c) the Delim c; it reads as that text, and it is the expectation
\* of no other parser.
C16_OwnExpectation ==
    ParseFailed =>
        /\ out.expected = Some(Expectation(out.parser, out.arg))
        /\ Info_fmt(Unwrap(out.expected)) =
              (CASE out.parser = "ident" -> "IDENT"
                 [] out.parser = "literal" -> "LITERAL"
                 [] OTHER -> out.arg)
        /\ \A m \in Matchers \ {<<out.parser, out.arg>>} :
              Expectation(m[1], m[2]) # Unwrap(out.expected)

\* literal() failed on an identifier.
C16_Witness ==
    /\ ParseFailed
    /\ out.parser = "literal"
    /\ Remaining(out.before) # <<>>
    /\ Remaining(out.before)[1].kind = "Ident"

\* ----------------------------------------------- properties of a grammar
\* The parsers group(delimiter, ident()) runs, in turn.
GroupMatchers(delimiter) ==
    CASE delimiter = "Parenthesis" -> <<<<"delim", "(">>, <<"ident", "">>, <<"delim", ")">>>>
      [] delimiter = "Brace"       -> <<<<"delim", "{">>, <<"ident", "">>, <<"delim", "}">>>>
      [] delimiter = "Bracket"     -> <<<<"delim", "[">>, <<"ident", "">>, <<"delim", "]">>>>

\* Which of the parsers m is the first not to accept the token it meets in
\* rest (or to meet none); 0 when each accepts its token.
FirstRejected(m, rest) ==
    LET bad == {k \in 1..Len(m) : ~Accepts(m[k][1], m[k][2], SubSeq(rest, k, Len(rest)))}
    IN IF bad = {} THEN 0 ELSE CHOOSE k \in bad : \A j \in bad : k <= j

\* The stream of one group and nothing else.
OneGroup(delimiter, forest) == Locate(<<Group(delimiter, forest, <<>>)>>, <<>>)

Foo == Leaf("Ident", "foo", <<>>)
Plus == Leaf("Punct", "+", <<>>)

\* The inputs of the scenarios, each with what is to come of it.
GroupScenarios ==
    { [tree |-> OneGroup("Brace", <<Foo, Plus>>), delimiter |-> "Brace",
       ok |-> FALSE, at |-> 2, text |-> "}"],
      [tree |-> OneGroup("Brace", <<Plus, Foo>>), delimiter |-> "Brace",
       ok |-> FALSE, at |-> 1, text |-> "IDENT"],
      [tree |-> OneGroup("Brace", <<Foo>>), delimiter |-> "Brace",
       ok |-> TRUE, at |-> 3, text |-> "foo"],
      [tree |-> OneGroup("Bracket", <<Foo>>), delimiter |-> "Bracket",
       ok |-> TRUE, at |-> 3, text |-> "foo"],
      [tree |-> OneGroup("Parenthesis", <<Foo>>), delimiter |-> "Parenthesis",
       ok |-> TRUE, at |-> 3, text |-> "foo"] }

\* C17: group(delimiter, ident()) fails at the first token that the parser
\* whose turn it is does not accept, at that token's position and expecting
\* what that parser expects, and succeeds with the identifier when each
\* parser accepts its token: `{ foo + }` fails at `+` expecting `}`,
\* `{ + foo }` fails at `+` expecting IDENT, `{foo}`, `[foo]` and `(foo)`
\* yield foo.
C17_GroupFailsAtFirstRejected ==
    out.op = "group" =>
        /\ LET rest == Remaining(out.before)
               m == GroupMatchers(out.delimiter)
               k == FirstRejected(m, rest)
           IN IF k = 0
              THEN /\ out.res = "CommitOk"
                   /\ out.value = Some(rest[2])
                   /\ position(input) = position(out.before) + 3
                   /\ Remaining(input) = SubSeq(rest, 4, Len(rest))
              ELSE /\ out.res # "CommitOk"
                   /\ out.at = position(out.before) + k - 1
                   /\ out.expected = Some(Expectation(m[k][1], m[k][2]))
        /\ \A sc \in GroupScenarios :
              (tree = sc.tree /\ out.before = FromTokenStream(tree)
                 /\ out.delimiter = sc.delimiter) =>
                  IF sc.ok
                  THEN /\ out.res = "CommitOk"
                       /\ Unwrap(out.value).text = sc.text
                       /\ position(input) = sc.at
                  ELSE /\ out.res # "CommitOk"
                       /\ out.at = sc.at
                       /\ Token_fmt(Remaining(out.before)[sc.at + 1]) = "+"
                       /\ Info_fmt(Unwrap(out.expected)) = sc.text

\* `{ foo + }` parsed with group(Brace, ident()): failed at `+`.
C17_Witness ==
    /\ out.op = "group"
    /\ out.delimiter = "Brace"
    /\ tree = OneGroup("Brace", <<Foo, Plus>>)
    /\ out.before = FromTokenStream(tree)
    /\ out.res = "CommitErr"
    /\ out.at = 2

\* ------------------------------------------ properties of the frame stack
RECURSIVE PendingClosers(_, _)
\* The close Delims still owed after the tokens of seq, `open` being those
\* owed before them: an open Delim adds its closer, with the span of its
\* group, and a close Delim takes the last one away.
PendingClosers(seq, open) ==
    IF seq = <<>> THEN open
    ELSE IF IsOpen(Head(seq))
         THEN PendingClosers(Tail(seq),
                             Append(open, Delim(Closer(Head(seq).text), Head(seq).span)))
    ELSE IF IsClose(Head(seq)) /\ open # <<>>
         THEN PendingClosers(Tail(seq), SubSeq(open, 1, Len(open) - 1))
    ELSE PendingClosers(Tail(seq), open)

\* C21: between uncons calls the top-level frame has no pending close
\* token, every other frame has one, and the pending close tokens, from
\* the outermost frame to the innermost, are the closers of the open Delims
\* produced and not yet closed, in the order the opens were produced.
C21_PendingClosesMatchOpens ==
    LET stack == input.source_stack
    IN /\ stack # <<>> => stack[1].close = None
       /\ \A i \in 2..Len(stack) : IsSome(stack[i].close)
       /\ [i \in 1..(Len(stack) - 1) |-> Unwrap(stack[i + 1].close)]
             = PendingClosers(produced, <<>>)

\* Two groups of different delimiters open, one inside the other, after
\* another group was opened and closed.
C21_Witness ==
    /\ Len(input.source_stack) = 3
    /\ Unwrap(input.source_stack[2].close).text # Unwrap(input.source_stack[3].close).text
    /\ \E i \in 1..Len(produced) : IsClose(produced[i])

====
